---------------------------- MODULE Spec2Model ----------------------------
(***************************************************************************)
(* resourcetrack: a Registry maps category identifiers to shared atomic    *)
(* counters; a Tracker mints Count and Size guards whose construction adds *)
(* to the counter and whose drop subtracts from it.                        *)
(*                                                                         *)
(* Threads run the public operations.  The operations that take the        *)
(* registry mutex (category, read_counts) are split at the lock: lock      *)
(* acquisition, the work under the lock, unlock at return.  The guard      *)
(* operations are one atomic read-modify-write on the AtomicUsize followed *)
(* by an update of the guard's private field (reachable only through       *)
(* &mut self), so each is one step.  Atomics are interleaved sequentially  *)
(* consistently: all accesses of one AtomicUsize are totally ordered.      *)
(***************************************************************************)
EXTENDS Integers, Sequences, FiniteSets

\* ------------------------------------------------------------- bounds
\* Largest value of the model's usize; arithmetic on it is modulo Word.
USIZE_MAX == 2
\* Number of threads; each caches one Tracker and owns one guard variable,
\* which holds one guard in the thread's life.
NumThreads == 2

Word == USIZE_MAX + 1
Usize == 0..USIZE_MAX
Threads == 1..NumThreads
\* Spec runs every operation on two threads; SpecTrack runs the track()/drop
\* operations on all of Threads.
Callers == {1, 2}

\* Identifiers of the Arc<String> kind: <<content, allocation>>.  The first
\* two are equal strings built independently.
Names == {<<"a", 1>>, <<"a", 2>>, <<"b", 1>>}

VARIABLES
    categories,       \* Registry.categories: the map's entries in iteration order
    heap,             \* the AtomicUsize cells allocated by Arc::new, by address
    lock,             \* the Mutex: 0 when free, else the thread holding it
    poisoned,         \* the Mutex's poison flag: a holder panicked while holding it
    pc,               \* per thread: where it is
    arg,              \* per thread: the name its running category() call was given
    count,            \* per thread: the `count` of its running category() call (0: none)
    acc,              \* per thread: the pairs read_counts has collected so far
    tracker,          \* per thread: its Tracker's `count` (0: no Tracker yet)
    guard,            \* per thread: its guard
    referenced,       \* history: the contents of the names category() has looked up
    lastRead,         \* history: <<result>> of the latest read_counts, <<>> once
                      \*   a guard or category operation has happened since it began
    undisturbed       \* history: no such operation since the running read_counts locked

vars == <<categories, heap, lock, poisoned, pc, arg, count, acc, tracker, guard,
          referenced, lastRead, undisturbed>>

NoName == <<"", 0>>
NoGuard == [kind |-> "none", total |-> 0, local |-> 0]
Dropped == [kind |-> "dropped", total |-> 0, local |-> 0]

\* ------------------------------------------------- integers and atomics
\* AtomicUsize::fetch_add: the cell afterwards (wraps around on overflow).
fetch_add(cell, val) == (cell + val) % Word

\* AtomicUsize::fetch_sub: the cell afterwards (wraps around on underflow).
fetch_sub(cell, val) == (cell - val + Word) % Word

\* Faulty variant: a read that resets the cell (swap(0)).
load_reset(cell) == [value |-> cell, cell |-> 0]
\* AtomicUsize::load: the value returned and the cell afterwards.
load(cell) == [value |-> cell, cell |-> cell]

abs_diff(a, b) == IF a < b THEN b - a ELSE a - b

\* Faulty variant: a plain wrapping subtraction.
saturating_sub_wrapping(a, b) == (a - b + Word) % Word
saturating_sub(a, b) == IF a < b THEN 0 ELSE a - b

min(a, b) == IF a < b THEN a ELSE b

\* `a += b` on usize: on overflow it panics in a build with overflow checks
\* (debug) and wraps around in one without (release).
add_assign(a, b, overflow_checks) ==
    IF a + b > USIZE_MAX
    THEN IF overflow_checks
         THEN [panic |-> TRUE, value |-> a]
         ELSE [panic |-> FALSE, value |-> (a + b) % Word]
    ELSE [panic |-> FALSE, value |-> a + b]

\* ------------------------------------------------------ the HashMap
\* Faulty variant: identifiers compared by allocation (Arc::ptr_eq).
IdPtrEq(a, b) == a = b
\* Eq of the identifier: Arc<String> compares the strings, not the pointers.
IdEq(a, b) == a[1] = b[1]

\* Faulty variant: a lookup that never finds the key.
get_none(map, name) == 0
\* HashMap::get: the position of the entry with an equal key, 0 for None.
get(map, name) ==
    IF \E i \in 1..Len(map) : IdEq(map[i].id, name)
    THEN CHOOSE i \in 1..Len(map) : IdEq(map[i].id, name)
    ELSE 0

InsertAt(map, pos, entry) ==
    SubSeq(map, 1, pos - 1) \o <<entry>> \o SubSeq(map, pos, Len(map))

\* Faulty variant: the new category is not stored.
insert_lost(map, name, category, pos) == map
\* HashMap::insert: the value of an equal key is replaced; a new key lands
\* wherever its hash puts it in the iteration order (pos).
insert(map, name, category, pos) ==
    IF get(map, name) # 0
    THEN [map EXCEPT ![get(map, name)].total = category.total]
    ELSE InsertAt(map, pos, [id |-> name, total |-> category.total])

\* Faulty variant: a total that is not read from the counter.
total_cached(category) == [value |-> 0, cell |-> heap[category.total]]
\* Category::total
total(category) == load(heap[category.total])

\* ------------------------------------------------------ history variables
\* A guard or category operation happens: the latest read_counts result is
\* no longer that of an undisturbed registry.
Disturb == lastRead' = <<>> /\ undisturbed' = FALSE

\* ------------------------------------------------------------- Init
Init ==
    /\ categories = <<>>
    /\ heap = <<>>
    /\ lock = 0
    /\ poisoned = FALSE
    /\ pc = [t \in Threads |-> "idle"]
    /\ arg = [t \in Threads |-> NoName]
    /\ count = [t \in Threads |-> 0]
    /\ acc = [t \in Threads |-> <<>>]
    /\ tracker = [t \in Threads |-> 0]
    /\ guard = [t \in Threads |-> NoGuard]
    /\ referenced = {}
    /\ lastRead = <<>>
    /\ undisturbed = FALSE

\* ------------------------------------------------- Registry::category
\* self.categories.lock().expect("local mutex"): the call takes the mutex (a
\* caller that finds it held blocks until this step is possible).  On a
\* poisoned mutex lock() is an Err and expect panics; the guard inside the
\* Err is dropped at once, so the mutex stays free.
category_lock(t, name) ==
    /\ pc[t] = "idle"
    /\ lock = 0
    /\ IF poisoned
       THEN /\ pc' = [pc EXCEPT ![t] = "panicked"]
            /\ UNCHANGED <<lock, arg>>
       ELSE /\ lock' = t
            /\ pc' = [pc EXCEPT ![t] = "category_locked"]
            /\ arg' = [arg EXCEPT ![t] = name]
    /\ UNCHANGED <<poisoned, categories, heap, count, acc, tracker, guard,
                   referenced, lastRead, undisturbed>>

\* Faulty variant: the lookup was made before the mutex was taken and found
\* nothing; only the insert is under the lock.
category_stale_lookup(t) ==
    /\ pc[t] = "category_locked"
    /\ lock = t
    /\ \E pos \in 1..(Len(categories) + 1) :
         LET new == Len(heap) + 1 IN
           /\ heap' = Append(heap, 0)
           /\ categories' = insert(categories, arg[t], [total |-> new], pos)
           /\ count' = [count EXCEPT ![t] = new]
    /\ pc' = [pc EXCEPT ![t] = "category_return"]
    /\ referenced' = referenced \cup {arg[t][1]}
    /\ Disturb
    /\ UNCHANGED <<poisoned, lock, arg, acc, tracker, guard>>

\* The match on categories.get(&name).
category(t) ==
    /\ pc[t] = "category_locked"
    /\ lock = t
    /\ LET existing == get(categories, arg[t]) IN
         IF existing # 0
         THEN /\ count' = [count EXCEPT ![t] = categories[existing].total]
              /\ UNCHANGED <<poisoned, categories, heap>>
         ELSE \E pos \in 1..(Len(categories) + 1) :
                LET new == Len(heap) + 1 IN
                  /\ heap' = Append(heap, 0)
                  /\ categories' = insert(categories, arg[t], [total |-> new], pos)
                  /\ count' = [count EXCEPT ![t] = new]
    /\ pc' = [pc EXCEPT ![t] = "category_return"]
    /\ referenced' = referenced \cup {arg[t][1]}
    /\ Disturb
    /\ UNCHANGED <<poisoned, lock, arg, acc, tracker, guard>>

\* Faulty variant: the MutexGuard is not dropped when the call returns.
category_return_locked(t) ==
    /\ pc[t] = "category_return"
    /\ lock = t
    /\ tracker' = [tracker EXCEPT ![t] = count[t]]
    /\ pc' = [pc EXCEPT ![t] = "idle"]
    /\ arg' = [arg EXCEPT ![t] = NoName]
    /\ count' = [count EXCEPT ![t] = 0]
    /\ UNCHANGED <<poisoned, categories, heap, lock, acc, guard,
                   referenced, lastRead, undisturbed>>

\* Tracker { count } is returned; the MutexGuard goes out of scope.
category_return(t) ==
    /\ pc[t] = "category_return"
    /\ lock = t
    /\ tracker' = [tracker EXCEPT ![t] = count[t]]
    /\ lock' = 0
    /\ pc' = [pc EXCEPT ![t] = "idle"]
    /\ arg' = [arg EXCEPT ![t] = NoName]
    /\ count' = [count EXCEPT ![t] = 0]
    /\ UNCHANGED <<poisoned, categories, heap, acc, guard,
                   referenced, lastRead, undisturbed>>

\* Names whose conversion to the identifier panics: category() is generic
\* in Name: Into<Id>, and the conversion is the caller's code (say a
\* From<&str> of an enum that rejects a name it does not know).
Rejected == {<<"b", 1>>}

\* The match for a name whose conversion returns.
category_converts(t) ==
    /\ arg[t] \notin Rejected
    /\ category(t)

\* The None arm with a name of Rejected: name.into() panics under the lock.
\* The new counter is freed and the MutexGuard is dropped while the thread
\* unwinds, which poisons the mutex and releases it; the map is untouched.
category_into_panics(t) ==
    /\ pc[t] = "category_locked"
    /\ lock = t
    /\ get(categories, arg[t]) = 0
    /\ arg[t] \in Rejected
    /\ poisoned' = TRUE
    /\ lock' = 0
    /\ pc' = [pc EXCEPT ![t] = "panicked"]
    /\ arg' = [arg EXCEPT ![t] = NoName]
    /\ UNCHANGED <<categories, heap, count, acc, tracker, guard,
                   referenced, lastRead, undisturbed>>

\* ----------------------------------------------- Registry::read_counts
\* self.categories.lock().expect("local mutex")
read_counts_lock(t) ==
    /\ pc[t] = "idle"
    /\ lock = 0
    /\ IF poisoned
       THEN /\ pc' = [pc EXCEPT ![t] = "panicked"]
            /\ UNCHANGED <<lock, acc, undisturbed>>
       ELSE /\ lock' = t
            /\ pc' = [pc EXCEPT ![t] = "read_counts_locked"]
            /\ acc' = [acc EXCEPT ![t] = <<>>]
            /\ undisturbed' = TRUE
    /\ UNCHANGED <<poisoned, categories, heap, arg, count, tracker, guard,
                   referenced, lastRead>>

\* One turn of the iterator: (id.clone(), category.total()).
read_counts_next(t) ==
    /\ pc[t] = "read_counts_locked"
    /\ lock = t
    /\ Len(acc[t]) < Len(categories)
    /\ LET entry == categories[Len(acc[t]) + 1]
           read == total(entry) IN
         /\ acc' = [acc EXCEPT ![t] = Append(@, <<entry.id, read.value>>)]
         /\ heap' = [heap EXCEPT ![entry.total] = read.cell]
    /\ UNCHANGED <<poisoned, categories, lock, pc, arg, count, tracker, guard,
                   referenced, lastRead, undisturbed>>

\* collect() is complete: the result is returned and the lock released.
read_counts_return(t) ==
    /\ pc[t] = "read_counts_locked"
    /\ lock = t
    /\ Len(acc[t]) = Len(categories)
    /\ lastRead' = IF undisturbed THEN <<acc[t]>> ELSE <<>>
    /\ acc' = [acc EXCEPT ![t] = <<>>]
    /\ lock' = 0
    /\ pc' = [pc EXCEPT ![t] = "idle"]
    /\ undisturbed' = FALSE
    /\ UNCHANGED <<poisoned, categories, heap, arg, count, tracker, guard, referenced>>

\* ------------------------------------------- the wait for the mutex
\* The same two calls with the wait made visible: the call is entered with
\* its argument, and lock() returns once the mutex is free.
category_call(t, name) ==
    /\ pc[t] = "idle"
    /\ pc' = [pc EXCEPT ![t] = "category_wait"]
    /\ arg' = [arg EXCEPT ![t] = name]
    /\ UNCHANGED <<poisoned, categories, heap, lock, count, acc, tracker, guard,
                   referenced, lastRead, undisturbed>>

\* Faulty variant: lock() returns whether or not the mutex is held.
category_acquire_barging(t) ==
    /\ pc[t] = "category_wait"
    /\ lock' = t
    /\ pc' = [pc EXCEPT ![t] = "category_locked"]
    /\ UNCHANGED <<poisoned, categories, heap, arg, count, acc, tracker, guard,
                   referenced, lastRead, undisturbed>>

category_acquire(t) ==
    /\ pc[t] = "category_wait"
    /\ lock = 0
    /\ IF poisoned
       THEN /\ pc' = [pc EXCEPT ![t] = "panicked"]
            /\ arg' = [arg EXCEPT ![t] = NoName]
            /\ UNCHANGED lock
       ELSE /\ lock' = t
            /\ pc' = [pc EXCEPT ![t] = "category_locked"]
            /\ UNCHANGED arg
    /\ UNCHANGED <<poisoned, categories, heap, count, acc, tracker, guard,
                   referenced, lastRead, undisturbed>>

read_counts_call(t) ==
    /\ pc[t] = "idle"
    /\ pc' = [pc EXCEPT ![t] = "read_counts_wait"]
    /\ UNCHANGED <<poisoned, categories, heap, lock, arg, count, acc, tracker, guard,
                   referenced, lastRead, undisturbed>>

read_counts_acquire(t) ==
    /\ pc[t] = "read_counts_wait"
    /\ lock = 0
    /\ IF poisoned
       THEN /\ pc' = [pc EXCEPT ![t] = "panicked"]
            /\ UNCHANGED <<lock, acc, undisturbed>>
       ELSE /\ lock' = t
            /\ pc' = [pc EXCEPT ![t] = "read_counts_locked"]
            /\ acc' = [acc EXCEPT ![t] = <<>>]
            /\ undisturbed' = TRUE
    /\ UNCHANGED <<poisoned, categories, heap, arg, count, tracker, guard,
                   referenced, lastRead>>

\* ------------------------------------------------------------ Tracker
\* #[derive(Clone)]: another handle on the same counter.
clone(t, u) ==
    /\ pc[t] = "idle"
    /\ t # u
    /\ tracker[u] # 0
    /\ tracker[t] # tracker[u]
    /\ tracker' = [tracker EXCEPT ![t] = tracker[u]]
    /\ UNCHANGED <<poisoned, categories, heap, lock, pc, arg, count, acc, guard,
                   referenced, lastRead, undisturbed>>

\* Faulty variant: one count for the whole registry: every counter goes up.
track_every_category(t) ==
    /\ pc[t] = "idle"
    /\ tracker[t] # 0
    /\ guard[t].kind = "none"
    /\ heap' = [c \in DOMAIN heap |-> fetch_add(heap[c], 1)]
    /\ guard' = [guard EXCEPT ![t] = [kind |-> "Count", total |-> tracker[t], local |-> 0]]
    /\ Disturb
    /\ UNCHANGED <<poisoned, categories, lock, pc, arg, count, acc, tracker, referenced>>

track(t) ==
    /\ pc[t] = "idle"
    /\ tracker[t] # 0
    /\ guard[t].kind = "none"
    /\ heap' = [heap EXCEPT ![tracker[t]] = fetch_add(@, 1)]
    /\ guard' = [guard EXCEPT ![t] = [kind |-> "Count", total |-> tracker[t], local |-> 0]]
    /\ Disturb
    /\ UNCHANGED <<poisoned, categories, lock, pc, arg, count, acc, tracker, referenced>>

track_size(t, initial) ==
    /\ pc[t] = "idle"
    /\ tracker[t] # 0
    /\ guard[t].kind = "none"
    /\ heap' = [heap EXCEPT ![tracker[t]] = fetch_add(@, initial)]
    /\ guard' = [guard EXCEPT ![t] = [kind |-> "Size", total |-> tracker[t], local |-> initial]]
    /\ Disturb
    /\ UNCHANGED <<poisoned, categories, lock, pc, arg, count, acc, tracker, referenced>>

\* ----------------------------------------------------- tracked::Count
\* Faulty variant: a Count whose drop leaves the counter alone.
drop_Count_forgotten(t) ==
    /\ pc[t] = "idle"
    /\ guard[t].kind = "Count"
    /\ guard' = [guard EXCEPT ![t] = Dropped]
    /\ Disturb
    /\ UNCHANGED <<poisoned, categories, heap, lock, pc, arg, count, acc, tracker, referenced>>

\* Faulty variant: a Count that can be copied: its drop leaves a live copy.
drop_Count_copied(t) ==
    /\ pc[t] = "idle"
    /\ guard[t].kind = "Count"
    /\ heap' = [heap EXCEPT ![guard[t].total] = fetch_sub(@, 1)]
    /\ Disturb
    /\ UNCHANGED <<poisoned, categories, lock, pc, arg, count, acc, tracker, guard,
                   referenced>>

drop_Count(t) ==
    /\ pc[t] = "idle"
    /\ guard[t].kind = "Count"
    /\ heap' = [heap EXCEPT ![guard[t].total] = fetch_sub(@, 1)]
    /\ guard' = [guard EXCEPT ![t] = Dropped]
    /\ Disturb
    /\ UNCHANGED <<poisoned, categories, lock, pc, arg, count, acc, tracker, referenced>>

\* ------------------------------------------------------ tracked::Size
\* Faulty variant: set without the branch on new_size < local.
set_unconditional_add(t, new_size) ==
    /\ pc[t] = "idle"
    /\ guard[t].kind = "Size"
    /\ heap' = [heap EXCEPT ![guard[t].total] = fetch_add(@, abs_diff(new_size, guard[t].local))]
    /\ guard' = [guard EXCEPT ![t].local = new_size]
    /\ Disturb
    /\ UNCHANGED <<poisoned, categories, lock, pc, arg, count, acc, tracker, referenced>>

set(t, new_size) ==
    /\ pc[t] = "idle"
    /\ guard[t].kind = "Size"
    /\ LET difference == abs_diff(new_size, guard[t].local) IN
         IF new_size < guard[t].local
         THEN heap' = [heap EXCEPT ![guard[t].total] = fetch_sub(@, difference)]
         ELSE heap' = [heap EXCEPT ![guard[t].total] = fetch_add(@, difference)]
    /\ guard' = [guard EXCEPT ![t].local = new_size]
    /\ Disturb
    /\ UNCHANGED <<poisoned, categories, lock, pc, arg, count, acc, tracker, referenced>>

\* fetch_add, then `self.local += amount`.  Whether an overflowing `+=`
\* panics or wraps depends on the build, so both outcomes are steps; when it
\* panics the counter has already been changed and the thread unwinds.
add(t, amount) ==
    /\ pc[t] = "idle"
    /\ guard[t].kind = "Size"
    /\ heap' = [heap EXCEPT ![guard[t].total] = fetch_add(@, amount)]
    /\ \E overflow_checks \in BOOLEAN :
         LET sum == add_assign(guard[t].local, amount, overflow_checks) IN
           /\ guard' = [guard EXCEPT ![t].local = sum.value]
           /\ pc' = [pc EXCEPT ![t] = IF sum.panic THEN "panicked" ELSE "idle"]
    /\ Disturb
    /\ UNCHANGED <<poisoned, categories, lock, arg, count, acc, tracker, referenced>>

subtract(t, amount) ==
    /\ pc[t] = "idle"
    /\ guard[t].kind = "Size"
    /\ heap' = [heap EXCEPT ![guard[t].total] = fetch_sub(@, min(amount, guard[t].local))]
    /\ guard' = [guard EXCEPT ![t].local = saturating_sub(guard[t].local, amount)]
    /\ Disturb
    /\ UNCHANGED <<poisoned, categories, lock, pc, arg, count, acc, tracker, referenced>>

\* Also runs while a panicked thread unwinds.
drop_Size(t) ==
    /\ pc[t] \in {"idle", "panicked"}
    /\ guard[t].kind = "Size"
    /\ heap' = [heap EXCEPT ![guard[t].total] = fetch_sub(@, guard[t].local)]
    /\ guard' = [guard EXCEPT ![t] = Dropped]
    /\ Disturb
    /\ UNCHANGED <<poisoned, categories, lock, pc, arg, count, acc, tracker, referenced>>

\* ------------------------------------------------------ specifications
Next ==
    \E t \in Callers :
        \/ \E name \in Names : category_lock(t, name)
        \/ category(t)
        \/ category_return(t)
        \/ read_counts_lock(t)
        \/ read_counts_next(t)
        \/ read_counts_return(t)
        \/ \E u \in Callers : clone(t, u)
        \/ track(t)
        \/ \E initial \in Usize : track_size(t, initial)
        \/ drop_Count(t)
        \/ \E new_size \in Usize : set(t, new_size)
        \/ \E amount \in Usize : add(t, amount)
        \/ \E amount \in Usize : subtract(t, amount)
        \/ drop_Size(t)

Spec == Init /\ [][Next]_vars

\* Threads that obtain Trackers (from the registry or by cloning), call
\* track() and drop their Count guards, and nothing else.
NextTrack ==
    \E t \in Threads :
        \/ \E name \in Names : category_lock(t, name)
        \/ category(t)
        \/ category_return(t)
        \/ \E u \in Threads : clone(t, u)
        \/ track(t)
        \/ drop_Count(t)

SpecTrack == Init /\ [][NextTrack]_vars

\* Threads that size one resource: Trackers from the registry, track_size,
\* add and the drop of the Size guard.
NextAdd ==
    \E t \in Callers :
        \/ \E name \in Names : category_lock(t, name)
        \/ category(t)
        \/ category_return(t)
        \/ \E initial \in Usize : track_size(t, initial)
        \/ \E amount \in Usize : add(t, amount)
        \/ drop_Size(t)

SpecAdd == Init /\ [][NextAdd]_vars

\* Threads that size one resource without add: track_size, set, subtract
\* and the drop of the Size guard.
NextSize ==
    \E t \in Callers :
        \/ \E name \in Names : category_lock(t, name)
        \/ category(t)
        \/ category_return(t)
        \/ \E initial \in Usize : track_size(t, initial)
        \/ \E new_size \in Usize : set(t, new_size)
        \/ \E amount \in Usize : subtract(t, amount)
        \/ drop_Size(t)

SpecSize == Init /\ [][NextSize]_vars

\* A registry whose identifier type converts from names by the caller's
\* code, which panics on the names of Rejected; the threads look up
\* categories, mint and drop Count guards and read the counts.
NextPoison ==
    \E t \in Callers :
        \/ \E name \in Names : category_lock(t, name)
        \/ category_converts(t)
        \/ category_into_panics(t)
        \/ category_return(t)
        \/ read_counts_lock(t)
        \/ read_counts_next(t)
        \/ read_counts_return(t)
        \/ track(t)
        \/ drop_Count(t)

SpecPoison == Init /\ [][NextPoison]_vars

\* Threads whose category() and read_counts() calls wait for the mutex
\* while they and the others mint and drop guards.
NextWait ==
    \E t \in Callers :
        \/ \E name \in Names : category_call(t, name)
        \/ category_acquire(t)
        \/ category(t)
        \/ category_return(t)
        \/ read_counts_call(t)
        \/ read_counts_acquire(t)
        \/ read_counts_next(t)
        \/ read_counts_return(t)
        \/ track(t)
        \/ drop_Count(t)

\* The scheduler runs every thread that can take a step, so a call that
\* holds the mutex goes on; and a call blocked in lock() is woken whenever
\* the mutex is released, so it gets the mutex if it is free again and
\* again.  Nothing makes a thread call, mint or drop.
Fairness ==
    \A t \in Callers :
        /\ WF_vars(category(t) \/ category_return(t)
                     \/ read_counts_next(t) \/ read_counts_return(t))
        /\ SF_vars(category_acquire(t) \/ read_counts_acquire(t))

SpecWait == Init /\ [][NextWait]_vars /\ Fairness

\* ------------------------------------------------------------- claims
\* What the live guards of counter c hold against it.
LiveCounts(c) == {t \in Threads : guard[t].kind = "Count" /\ guard[t].total = c}
LiveSizes(c) == {t \in Threads : guard[t].kind = "Size" /\ guard[t].total = c}

RECURSIVE SumLocal(_)
SumLocal(S) ==
    IF S = {} THEN 0
    ELSE LET t == CHOOSE x \in S : TRUE IN guard[t].local + SumLocal(S \ {t})

Counters == 1..Len(heap)

\* C1: every category's counter equals the number of its live Count guards
\* plus the sum of `local` over its live Size guards, and is therefore zero
\* when the category has no live guard.
C1_CounterIsSumOfLiveGuards ==
    \A c \in Counters : heap[c] = Cardinality(LiveCounts(c)) + SumLocal(LiveSizes(c))

\* C2: with threads that only track() and drop, a counter is never negative,
\* never above the number of threads holding a guard on it (at most
\* NumThreads), and zero once no thread holds one.
C2_NoLostUpdate ==
    \A c \in Counters :
        /\ 0 <= heap[c]
        /\ heap[c] <= Cardinality(LiveCounts(c))
        /\ Cardinality(LiveCounts(c)) <= NumThreads
        /\ (LiveCounts(c) = {} => heap[c] = 0)

\* Every thread holds a guard minted from the same counter at once.
C2_AllThreadsHold ==
    \E c \in Counters : LiveCounts(c) = Threads /\ heap[c] = NumThreads

Max(a, b) == IF a < b THEN b ELSE a
Min(a, b) == IF a < b THEN a ELSE b

\* x and y are the same machine word.
SameWord(x, y) == (x - y) % Word = 0

\* C3: subtract(A) on a Size guard with local L takes min(A, L) off the
\* shared counter (in the counter's machine arithmetic) and leaves local at
\* max(L - A, 0); when A > L the local is 0, not a wrapped value, and
\* dropping a guard whose local is 0 leaves every counter as it was.
C3_SubtractClamps ==
    [][\A t \in Threads :
        /\ \A A \in Usize :
              subtract(t, A) =>
                LET L == guard[t].local
                    c == guard[t].total IN
                  /\ SameWord(heap'[c], heap[c] - Min(A, L))
                  /\ guard'[t].local = Max(L - A, 0)
                  /\ A > L => guard'[t].local = 0
                  /\ \A d \in Counters \ {c} : heap'[d] = heap[d]
                  /\ \A u \in Threads \ {t} : guard'[u] = guard[u]
        /\ (drop_Size(t) /\ guard[t].local = 0) => heap' = heap
      ]_vars

\* A guard holding 1 beside another guard holding 1: subtract(2) is taken
\* and leaves the counter at the other guard's 1.
C3_SubtractMoreThanHeld ==
    \E t \in Threads, u \in Threads :
        /\ t # u
        /\ guard[t] = [kind |-> "Size", total |-> 1, local |-> 1]
        /\ guard[u] = [kind |-> "Size", total |-> 1, local |-> 1]
        /\ heap[1] = 2
        /\ ENABLED (subtract(t, 2) /\ heap'[1] = 1 /\ guard'[t].local = 0)

\* C4: set(S) on a Size guard with local L moves the shared counter by
\* S - L (in the counter's machine arithmetic), down by L - S when S < L and
\* up by S - L otherwise, and leaves local at S; nothing else changes.
C4_SetMovesByDifference ==
    [][\A t \in Threads : \A S \in Usize :
          set(t, S) =>
            LET L == guard[t].local
                c == guard[t].total IN
              /\ S < L => SameWord(heap'[c], heap[c] - (L - S))
              /\ S >= L => SameWord(heap'[c], heap[c] + (S - L))
              /\ guard'[t] = [kind |-> "Size", total |-> c, local |-> S]
              /\ \A d \in Counters \ {c} : heap'[d] = heap[d]
              /\ \A u \in Threads \ {t} : guard'[u] = guard[u]
      ]_vars

\* A guard holding 1 alone on its counter: set(2) takes the counter to 2
\* and set(0) takes it to 0.
C4_SetUpAndDown ==
    \E t \in Threads :
        /\ guard[t] = [kind |-> "Size", total |-> 1, local |-> 1]
        /\ heap[1] = 1
        /\ ENABLED (set(t, 2) /\ heap'[1] = 2 /\ guard'[t].local = 2)
        /\ ENABLED (set(t, 0) /\ heap'[1] = 0 /\ guard'[t].local = 0)

\* C5: track_size(I) adds I to the shared counter and yields a Size guard
\* with local I; add(A), for every A of the machine word, adds A to the
\* shared counter and leaves the guard's local at L + A.
C5_AddAddsToBoth ==
    [][\A t \in Threads :
        /\ \A I \in Usize :
              track_size(t, I) =>
                /\ SameWord(heap'[tracker[t]], heap[tracker[t]] + I)
                /\ guard'[t] = [kind |-> "Size", total |-> tracker[t], local |-> I]
        /\ \A A \in Usize :
              add(t, A) =>
                /\ SameWord(heap'[guard[t].total], heap[guard[t].total] + A)
                /\ guard'[t].local = guard[t].local + A
      ]_vars

\* C6: dropping a Size guard takes exactly its local off the shared counter
\* and leaves the other guards alone; a category none of whose guards is
\* live has total 0.
C6_DropReleasesLocal ==
    /\ [][\A t \in Threads :
            drop_Size(t) =>
              LET c == guard[t].total IN
                /\ SameWord(heap'[c], heap[c] - guard[t].local)
                /\ \A d \in Counters \ {c} : heap'[d] = heap[d]
                /\ \A u \in Threads \ {t} : guard'[u] = guard[u]
        ]_vars
    /\ [](\A c \in Counters : (LiveCounts(c) \cup LiveSizes(c) = {}) => heap[c] = 0)

\* The entries of the map whose identifier equals name.
EntriesFor(name) == {i \in 1..Len(categories) : categories[i].id[1] = name[1]}

\* C7: category(id) is get-or-create.  For an identifier not in the map it
\* allocates a counter holding 0 and inserts a category over it; for one
\* that is there it takes the existing counter and changes neither the map
\* nor any counter.  The Tracker it returns, a clone of a Tracker, and every
\* guard minted from either are bound to that one counter.
C7_GetOrCreate ==
    [][\A t \in Threads :
        /\ category(t) =>
              IF EntriesFor(arg[t]) = {}
              THEN /\ count'[t] = Len(heap) + 1
                   /\ heap' = Append(heap, 0)
                   /\ Len(categories') = Len(categories) + 1
                   /\ \E j \in 1..Len(categories') :
                         categories'[j] = [id |-> arg[t], total |-> count'[t]]
                   /\ \A i \in 1..Len(categories) :
                         \E j \in 1..Len(categories') : categories'[j] = categories[i]
              ELSE /\ \E i \in EntriesFor(arg[t]) : count'[t] = categories[i].total
                   /\ heap' = heap
                   /\ categories' = categories
        /\ category_return(t) =>
              /\ \A i \in EntriesFor(arg[t]) : tracker'[t] = categories[i].total
              /\ EntriesFor(arg[t]) # {}
              /\ UNCHANGED <<heap, categories>>
        /\ \A u \in Threads :
              clone(t, u) => tracker'[t] = tracker[u] /\ UNCHANGED <<heap, categories>>
        /\ (track(t) \/ \E I \in Usize : track_size(t, I)) =>
              /\ guard'[t].total = tracker[t]
              /\ \A d \in Counters \ {tracker[t]} : heap'[d] = heap[d]
      ]_vars

\* A second category() call for an identifier whose category already holds
\* a guard has found the existing counter, still at 1.
C7_SecondCallSharesCounter ==
    \E t \in Threads, u \in Threads :
        /\ t # u
        /\ pc[t] = "category_return"
        /\ arg[t] = <<"a", 1>>
        /\ categories = <<[id |-> <<"a", 1>>, total |-> 1]>>
        /\ count[t] = 1
        /\ tracker[u] = 1
        /\ guard[u] = [kind |-> "Count", total |-> 1, local |-> 0]
        /\ heap = <<1>>

\* C8: the map never holds two categories whose identifiers are equal, and
\* no step removes an entry or rebinds its counter: every (identifier,
\* counter) entry of the map is still in it after the step.
C8_OneCategoryPerId ==
    /\ [](\A i \in 1..Len(categories), j \in 1..Len(categories) :
             i # j => categories[i].id[1] # categories[j].id[1])
    /\ [][\A i \in 1..Len(categories) :
            \E j \in 1..Len(categories') : categories'[j] = categories[i]]_vars

\* category() was given a string equal to, but allocated apart from, the
\* key of one of the two categories, and found that category.
C8_EqualNameFindsCategory ==
    \E t \in Threads, i \in 1..Len(categories) :
        /\ pc[t] = "category_return"
        /\ arg[t] = <<"a", 2>>
        /\ Len(categories) = 2
        /\ categories[i].id = <<"a", 1>>
        /\ count[t] = categories[i].total

\* The identifiers of a read_counts result.
Ids(counts) == {counts[i][1][1] : i \in 1..Len(counts)}

\* C9: what read_counts returns names exactly the identifiers category()
\* has been given, each once, whatever their totals.
C9_ReadCountsNamesReferenced ==
    [][\A t \in Threads :
          read_counts_return(t) =>
            /\ Ids(acc[t]) = referenced
            /\ Len(acc[t]) = Cardinality(referenced)
      ]_vars

\* read_counts has returned a category at 0 whose only guard was dropped.
C9_ZeroCategoryListed ==
    /\ lastRead = << << << <<"a", 1>>, 0 >> >> >>
    /\ \E t \in Threads : guard[t] = Dropped
    /\ \A t \in Threads : guard[t].kind \in {"none", "dropped"}

\* C10: no step of read_counts changes a counter, a guard or the map, and
\* a read_counts that returns with no guard or category operation since
\* the previous read_counts began returns what that one returned.
C10_ReadCountsTwice ==
    [][\A t \in Threads :
        /\ (read_counts_lock(t) \/ read_counts_next(t) \/ read_counts_return(t)) =>
              UNCHANGED <<heap, guard, categories, tracker>>
        /\ (read_counts_return(t) /\ lastRead # <<>>) => acc[t] = lastRead[1]
      ]_vars

\* A second read_counts has collected, with nothing in between, the same
\* two totals as the first, one of them held by a live guard.
C10_SecondReadSame ==
    \E t \in Threads :
        /\ pc[t] = "read_counts_locked"
        /\ lastRead # <<>>
        /\ Len(acc[t]) = 2
        /\ acc[t] = lastRead[1]
        /\ \E i \in 1..2 : acc[t][i][2] > 0

\* C11: the shared counter never underflows or wraps around: every atomic
\* subtraction (the drop of a Count or Size guard, subtract, a downward set)
\* takes off no more than the counter holds, and every atomic addition
\* (track, track_size, an upward set, add) stays within the machine word.
\* An add that returns is a step of set: upward by its amount, or, when the
\* guard's local wraps around, downward to the wrapped local.
C11_NoWraparound ==
    [][\A t \in Threads :
        /\ drop_Count(t) => heap[guard[t].total] >= 1
        /\ drop_Size(t) => heap[guard[t].total] >= guard[t].local
        /\ \A A \in Usize :
              subtract(t, A) => heap[guard[t].total] >= Min(A, guard[t].local)
        /\ \A S \in Usize :
              set(t, S) =>
                LET L == guard[t].local
                    c == guard[t].total IN
                  /\ S < L => heap[c] >= L - S
                  /\ S >= L => heap[c] + (S - L) <= USIZE_MAX
        /\ track(t) => heap[tracker[t]] + 1 <= USIZE_MAX
        /\ \A I \in Usize : track_size(t, I) => heap[tracker[t]] + I <= USIZE_MAX
        /\ \A A \in Usize :
              (add(t, A) /\ pc'[t] = "panicked") => heap[guard[t].total] + A <= USIZE_MAX
      ]_vars

\* C12: every guard operation is infallible: no thread ever panics, and a
\* step of add changes the shared counter and the guard's local by the same
\* amount (it does not fail after the counter has been changed).
C12_Infallible ==
    /\ [](\A t \in Threads : pc[t] # "panicked")
    /\ [][\A t \in Threads : \A A \in Usize :
            add(t, A) =>
              SameWord(heap'[guard[t].total] - heap[guard[t].total],
                       guard'[t].local - guard[t].local)
        ]_vars

\* Guard g is live and holds counter c.
Live(g, c) == g.kind \in {"Count", "Size"} /\ g.total = c

\* C13: each guard goes from Live to Dropped and stays there.  A Count
\* guard's construction adds exactly 1 to its Tracker's counter and its
\* drop takes exactly 1 off; the drop of a Size guard takes off its local;
\* a live guard changes neither its kind nor its counter; and every change
\* of a counter comes with a change of a guard that is live on it before or
\* after the step (or with the panic of that guard's owner), never with a
\* guard that was already dropped.
C13_GuardLifecycle ==
    [][/\ \A t \in Threads :
            LET g == guard[t]
                h == guard'[t] IN
              /\ g.kind = "none" => h.kind \in {"none", "Count", "Size"}
              /\ g.kind = "Count" => (h = g \/ h = Dropped)
              /\ g.kind = "Size" => ((h.kind = "Size" /\ h.total = g.total) \/ h = Dropped)
              /\ g.kind = "dropped" => h = g
              /\ (g.kind = "none" /\ h.kind = "Count") =>
                    /\ h.total = tracker[t]
                    /\ SameWord(heap'[h.total], heap[h.total] + 1)
              /\ (g.kind = "Count" /\ h.kind = "dropped") =>
                    SameWord(heap'[g.total], heap[g.total] - 1)
              /\ (g.kind = "Size" /\ h.kind = "dropped") =>
                    SameWord(heap'[g.total], heap[g.total] - g.local)
       /\ \A c \in Counters :
            heap'[c] # heap[c] =>
              \E t \in Threads :
                  /\ guard'[t] # guard[t] \/ pc'[t] # pc[t]
                  /\ Live(guard[t], c) \/ Live(guard'[t], c)
      ]_vars

\* One thread's Count guard has been dropped while another thread's Count
\* guard on the same counter is live: the counter is at 1.
C13_OneDroppedOneLive ==
    \E t \in Threads, u \in Threads :
        /\ guard[t] = Dropped
        /\ guard[u].kind = "Count"
        /\ tracker[t] = guard[u].total
        /\ heap[guard[u].total] = 1

C15_OneCounterPerId ==
    /\ Len(heap) = Len(categories)
    /\ Len(categories) = Cardinality(referenced)
    /\ \A i \in 1..Len(categories), j \in 1..Len(categories) :
          i # j => categories[i].total # categories[j].total
    /\ \A t \in Threads :
          /\ pc[t] = "category_return" =>
                /\ EntriesFor(arg[t]) # {}
                /\ \A i \in EntriesFor(arg[t]) : count[t] = categories[i].total
          /\ tracker[t] # 0 => \E i \in 1..Len(categories) : categories[i].total = tracker[t]
          /\ guard[t].kind = "Count" =>
                \E i \in 1..Len(categories) : categories[i].total = guard[t].total
          /\ (pc[t] = "read_counts_locked" /\ undisturbed) =>
                \A k \in 1..Len(acc[t]) :
                    acc[t][k] = <<categories[k].id,
                                  Cardinality(LiveCounts(categories[k].total))>>

\* Two calls for equal identifiers overlap: one has just created the
\* category, the other waits for the mutex; when the first returns, the
\* second gets the mutex and its lookup finds the first one's counter.
C15_BothCallersShare ==
    \E t \in Callers, u \in Callers :
        /\ pc[t] = "category_return"
        /\ arg[t] = <<"a", 1>>
        /\ count[t] = 1
        /\ heap = <<0>>
        /\ pc[u] = "category_wait"
        /\ arg[u] = <<"a", 2>>
        /\ ENABLED (/\ category_return(t)
                    /\ (ENABLED (/\ category_acquire(u)
                                 /\ (ENABLED (/\ category(u)
                                              /\ count'[u] = 1
                                              /\ heap' = <<0>>))'))')

C17_LockNeverPoisoned ==
    /\ [](~poisoned)
    /\ [][\A t \in Threads :
            /\ lock = t => pc'[t] # "panicked"
            /\ ((\E name \in Names : category_lock(t, name)) \/ read_counts_lock(t)) =>
                  lock' = t
        ]_vars

\* C18: categories are isolated.  Minting a guard from a Tracker changes no
\* counter but the Tracker's; set, add, subtract and the drop of a guard
\* change no counter but the guard's; none of them changes the map; and
\* category(id), for a new identifier or a known one, leaves every existing
\* counter and every existing entry of the map as it was.
C18_CategoriesIsolated ==
    [][\A t \in Threads :
        /\ (track(t) \/ \E I \in Usize : track_size(t, I)) =>
              /\ \A d \in Counters \ {tracker[t]} : heap'[d] = heap[d]
              /\ categories' = categories
        /\ (\/ drop_Count(t)
            \/ drop_Size(t)
            \/ \E S \in Usize : set(t, S)
            \/ \E A \in Usize : add(t, A)
            \/ \E A \in Usize : subtract(t, A)) =>
              /\ \A d \in Counters \ {guard[t].total} : heap'[d] = heap[d]
              /\ categories' = categories
        /\ category(t) =>
              /\ \A d \in Counters : heap'[d] = heap[d]
              /\ \A i \in 1..Len(categories) :
                    \E j \in 1..Len(categories') : categories'[j] = categories[i]
      ]_vars

\* A Count guard in one category and a Size guard in another, both live:
\* the totals are 1 and 2, and resizing the Size guard to 0 leaves the
\* other category at 1.
C18_MixedGuards ==
    \E t \in Threads, u \in Threads :
        /\ Len(categories) = 2
        /\ guard[t] = [kind |-> "Count", total |-> 1, local |-> 0]
        /\ guard[u] = [kind |-> "Size", total |-> 2, local |-> 2]
        /\ heap = <<1, 2>>
        /\ ENABLED (set(u, 0) /\ heap' = <<1, 0>>)

=============================================================================
